---- MODULE Spec2Model ----
(***************************************************************************)
(* Selection and bulk-operation coordination of the company-list client:   *)
(* the selection context, the App coordinator (conflict check, resolution, *)
(* dispatch, tracking), the useWebSocket hook and the ProgressModal.       *)
(*                                                                         *)
(* React state updates are run to completion: a handler's setState calls,  *)
(* the re-render and the effects whose dependencies changed are one step.  *)
(* Every await, timer and socket event is a step of its own.               *)
(***************************************************************************)
EXTENDS Integers, Sequences, FiniteSets, TLC

\* ---------------------------------------------------------------- bounds
NumIds == 2            \* company identifiers 1..NumIds
MaxOps == 1            \* bulk operations started in one run
MaxSockets == 2        \* WebSocket objects alive at the same time
MaxTimers == 2         \* reconnect timeouts pending at the same time
MaxProcessed == 1      \* progress frames carry processed in 0..MaxProcessed
MaxCompleteTimers == 1 \* pending setTimeout(onComplete, 1000) callbacks
MaxLoads == 1          \* page loads in flight; id fetches in flight
MaxToggles == 1        \* status toggles in flight

\* ------------------------------------------------------ program constants
maxReconnectAttempts == 5

Ids == 1..NumIds
NoId == 0
NULL == <<>>
Some(x) == <<x>>
IsNull(v) == v = <<>>
Val(v) == v[1]

\* Operation ids. The k-th operation's predicted id is `add_<target>_<now>`;
\* the server answers with the same id or with another one of its own.
PredictedId(k) == 2 * k - 1
ServerIds(k) == {2 * k - 1, 2 * k}
OpIds == 1..(2 * (MaxOps + 1))

ConflictTypes == {"in_liked", "in_ignored"}

\* ----------------------------------------------------------------- state
VARIABLES
  \* SelectionProvider
  selectedIds, isAllSelected, totalInCollection,
  \* AppContent
  isProcessing, currentOperation, notification,
  conflictDialog, confirmDialog, clearStatusesDialog,
  \* the async handler in flight: its position and its locals
  flow, flowIds, flowKind, predictedOperationId,
  \* useWebSocket
  wsRef, reconnectTimeoutRef, reconnectAttemptsRef, lastMessage,
  sockets, timers,
  \* ProgressModal
  status, processedCount, completeTimers,
  \* environment and history
  opClock, resolved, choice, terminal, attemptsSinceOpen, applied,
  \* EnhancedCompanyTable: the rendered rows (id and status flags, in
  \* order), the shift-click anchor, fetches and status toggles in flight
  response, lastSelectedId, loads, idFetches, toggles,
  \* the collection shown, the column filter, and the filter kept in
  \* localStorage
  selectedCollectionId, columnFilters,
  \* the id set of the most recent selectAll and the kind of the last row
  \* click (history)
  lastSelectAll, lastClick,
  \* the bulkRemove calls of the Delete shortcut that are in flight
  removeCalls,
  \* the server: the companies on the liked list and on the ignore list
  likedList, ignoredList

selVars == <<selectedIds, isAllSelected, totalInCollection>>
appVars == <<isProcessing, currentOperation, notification,
             conflictDialog, confirmDialog, clearStatusesDialog>>
flowVars == <<flow, flowIds, flowKind, predictedOperationId>>
hookVars == <<wsRef, reconnectTimeoutRef, reconnectAttemptsRef, lastMessage,
              sockets, timers>>
modalVars == <<status, processedCount, completeTimers>>
histVars == <<opClock, resolved, choice, terminal, attemptsSinceOpen, applied>>
serverVars == <<likedList, ignoredList>>
tableVars == <<response, lastSelectedId, loads, idFetches, toggles,
               selectedCollectionId, columnFilters, lastSelectAll, lastClick,
               removeCalls, serverVars>>
vars == <<selVars, appVars, flowVars, hookVars, modalVars, histVars, tableVars>>

\* ------------------------------------------------------------- sequences
RECURSIVE SetToSeq(_)
SetToSeq(S) ==
  IF S = {} THEN <<>>
  ELSE LET m == CHOOSE x \in S : \A y \in S : x <= y
       IN <<m>> \o SetToSeq(S \ {m})

SeqToSet(s) == {s[i] : i \in 1..Len(s)}

NoRepeats(s) == \A i, j \in 1..Len(s) : i # j => s[i] # s[j]

\* ------------------------------------------------------ SelectionProvider
\* A toggle that only ever adds.
ToggleSetAddOnly(prev, companyId) == prev \cup {companyId}

\* toggleSelection: flip membership; isAllSelected is dropped only when the
\* new size is below totalInCollection.
ToggleSet(prev, companyId) ==
  IF companyId \in prev THEN prev \ {companyId} ELSE prev \cup {companyId}

ToggleAllFlag(flag, newSet, total) ==
  IF Cardinality(newSet) < total THEN FALSE ELSE flag

toggleSelection(companyId) ==
  /\ selectedIds' = ToggleSet(selectedIds, companyId)
  /\ isAllSelected' = ToggleAllFlag(isAllSelected, ToggleSet(selectedIds, companyId),
                                    totalInCollection)

selectAll(companyIds) ==
  /\ selectedIds' = companyIds
  /\ isAllSelected' = TRUE

clearSelection ==
  /\ selectedIds' = {}
  /\ isAllSelected' = FALSE

\* ----------------------------------------------------------- useWebSocket
\* The hook's refs and the sockets and timeouts it created, as one record,
\* so that disconnect(), connect() and the onclose handler compose.
FreeSock == [url |-> NoId, st |-> "FREE"]
NoTimer == NoId

HookState ==
  [wsRef |-> wsRef, reconnectTimeoutRef |-> reconnectTimeoutRef,
   reconnectAttemptsRef |-> reconnectAttemptsRef,
   sockets |-> sockets, timers |-> timers]

FreeSockSlots(h) == {i \in 1..MaxSockets : h.sockets[i].st = "FREE"}
FreeTimerSlots(h) == {i \in 1..MaxTimers : h.timers[i] = NoTimer}
MinOf(S) == CHOOSE x \in S : \A y \in S : x <= y

\* connect(): nothing without a url or while wsRef is OPEN; else a new
\* WebSocket (CONNECTING) replaces wsRef.
CanConnect(h, url) ==
  url # NoId /\ ~(h.wsRef # 0 /\ h.sockets[h.wsRef].st = "OPEN")

connect(h, url) ==
  IF ~CanConnect(h, url) THEN h
  ELSE LET s == MinOf(FreeSockSlots(h))
       IN [h EXCEPT !.sockets[s] = [url |-> url, st |-> "CONNECTING"],
                    !.wsRef = s]

\* disconnect(): clear the timeout reconnectTimeoutRef names, close the
\* socket wsRef names (its close event comes later), forget both.
disconnect(h) ==
  LET h1 == IF h.reconnectTimeoutRef # 0
            THEN [h EXCEPT !.timers[h.reconnectTimeoutRef] = NoTimer,
                           !.reconnectTimeoutRef = 0]
            ELSE h
  IN IF h1.wsRef # 0
     THEN [h1 EXCEPT !.sockets[h1.wsRef].st = "CLOSING", !.wsRef = 0]
     ELSE h1

\* ws.onclose of socket s: wsRef is nulled whatever it names, and while the
\* counter is below the cap it is incremented and a reconnect is scheduled
\* with the connect() of the render that created s (same url).
ScheduleReconnect(h, url) ==
  LET t == MinOf(FreeTimerSlots(h))
  IN [h EXCEPT !.reconnectAttemptsRef = @ + 1,
               !.timers[t] = url,
               !.reconnectTimeoutRef = t]

MayReconnect(h) == h.reconnectAttemptsRef < maxReconnectAttempts

onclose(h, s) ==
  LET url == h.sockets[s].url
      h1 == [h EXCEPT !.sockets[s] = FreeSock, !.wsRef = 0]
  IN IF MayReconnect(h1) THEN ScheduleReconnect(h1, url) ELSE h1

\* useEffect([url]): cleanup of the previous effect, then connect when set.
UrlOf(op) == IF IsNull(op) THEN NoId ELSE Val(op).id

urlEffect(h, oldOp, newOp) ==
  IF UrlOf(oldOp) = UrlOf(newOp) THEN h
  ELSE connect(disconnect(h), UrlOf(newOp))

\* Slots the composed hook calls of one step may need.
SockRoom(h) == FreeSockSlots(h) # {}
TimerRoom(h) == FreeTimerSlots(h) # {}

SetHook(h) ==
  /\ wsRef' = h.wsRef
  /\ reconnectTimeoutRef' = h.reconnectTimeoutRef
  /\ reconnectAttemptsRef' = h.reconnectAttemptsRef
  /\ sockets' = h.sockets
  /\ timers' = h.timers

\* ---------------------------------------------------------- ProgressModal
\* useEffect([webSocketMessage, operationId, onComplete]): a message whose
\* operation_id is the modal's operationId overwrites the counters; a
\* completed one sets status and schedules onComplete after one second.
ModalState ==
  [status |-> status, processedCount |-> processedCount,
   completeTimers |-> completeTimers]

\* A match test that does not look at the frame's operation id.
MessageMatchesAny(msg, op) ==
  /\ ~IsNull(msg)
  /\ ~IsNull(op)

MessageMatches(msg, op) ==
  /\ ~IsNull(msg)
  /\ ~IsNull(op)
  /\ Val(msg).operation_id = Val(op).id

ApplyProcessed(m, msg) == [m EXCEPT !.processedCount = Val(msg).processed]

\* A completion branch that marks the status but schedules no onComplete.
ApplyCompletedNoTimer(m, msg) ==
  IF Val(msg).status = "completed"
  THEN [m EXCEPT !.status = "completed"]
  ELSE m

ApplyCompleted(m, msg) ==
  IF Val(msg).status = "completed"
  THEN [m EXCEPT !.status = "completed", !.completeTimers = @ + 1]
  ELSE m

modalEffect(m, msg, op) ==
  IF MessageMatches(msg, op) THEN ApplyCompleted(ApplyProcessed(m, msg), msg) ELSE m

\* The effect runs only when one of its dependencies changed.
modalEffectOn(m, oldMsg, msg, oldOp, op) ==
  IF oldMsg = msg /\ UrlOf(oldOp) = UrlOf(op) THEN m ELSE modalEffect(m, msg, op)

TimerRoomFor(m) == m.completeTimers <= MaxCompleteTimers

SetModal(m) ==
  /\ status' = m.status
  /\ processedCount' = m.processedCount
  /\ completeTimers' = m.completeTimers

canClose == status = "none" \/ status = "completed" \/ status = "failed"

\* ------------------------------------------------------------- page state
\* rows carry liked/ignored flags; a company that is not on the page has none
Statuses == {"none", "liked", "ignored"}
Company(id, liked, ignored) == [id |-> id, liked |-> liked, ignored |-> ignored]

\* The sidebar lists the first collection and one more. A column filter is
\* modelled by the largest company id it lets through: NoFilter lets every
\* company through, the other filter all but the last.
FirstCollection == 1
Collections == {FirstCollection, FirstCollection + 1}
NoFilter == NumIds
Filters == {NoFilter - 1, NoFilter}
LoadRequest(collectionId, filter) == [collection |-> collectionId, filter |-> filter]

ClosedConflictDialog == [open |-> FALSE, conflictInfo |-> NULL, companyIds |-> <<>>]
ClosedConfirmDialog == [open |-> FALSE, companyIds |-> <<>>]
ClosedClearStatusesDialog ==
  [open |-> FALSE, likedCount |-> 0, ignoredCount |-> 0,
   likedIds |-> <<>>, ignoredIds |-> <<>>]

EmptySockets == [i \in 1..MaxSockets |-> FreeSock]
EmptyTimers == [i \in 1..MaxTimers |-> NoTimer]

\* window.location.reload(): the document is replaced, so every piece of
\* React state, every ref, socket and timer of the old page is gone.
FreshPage ==
  /\ selectedIds' = {} /\ isAllSelected' = FALSE /\ totalInCollection' = 0
  /\ isProcessing' = FALSE /\ currentOperation' = NULL
  /\ conflictDialog' = ClosedConflictDialog
  /\ confirmDialog' = ClosedConfirmDialog
  /\ clearStatusesDialog' = ClosedClearStatusesDialog
  /\ flow' = "idle" /\ flowIds' = <<>> /\ flowKind' = "none"
  /\ predictedOperationId' = NoId
  /\ wsRef' = 0 /\ reconnectTimeoutRef' = 0 /\ reconnectAttemptsRef' = 0
  /\ lastMessage' = NULL
  /\ sockets' = EmptySockets /\ timers' = EmptyTimers
  /\ status' = "none" /\ processedCount' = 0 /\ completeTimers' = 0
  /\ resolved' = NULL /\ choice' = "none"
  /\ attemptsSinceOpen' = 0 /\ applied' = FALSE
  /\ response' = <<>> /\ lastSelectedId' = NoId
  /\ selectedCollectionId' = FirstCollection
  /\ columnFilters' = columnFilters
  /\ loads' = {LoadRequest(FirstCollection, NoFilter),
               LoadRequest(FirstCollection, columnFilters)}
  /\ idFetches' = {} /\ toggles' = <<>>
  /\ lastSelectAll' = NULL /\ lastClick' = "none"
  /\ removeCalls' = {}
  /\ UNCHANGED serverVars

IsFreshPage ==
  /\ selectedIds = {} /\ isAllSelected = FALSE /\ totalInCollection = 0
  /\ isProcessing = FALSE /\ currentOperation = NULL
  /\ conflictDialog = ClosedConflictDialog
  /\ confirmDialog = ClosedConfirmDialog
  /\ clearStatusesDialog = ClosedClearStatusesDialog
  /\ flow = "idle" /\ flowIds = <<>> /\ flowKind = "none"
  /\ predictedOperationId = NoId
  /\ wsRef = 0 /\ reconnectTimeoutRef = 0 /\ reconnectAttemptsRef = 0
  /\ lastMessage = NULL
  /\ sockets = EmptySockets /\ timers = EmptyTimers
  /\ status = "none" /\ processedCount = 0 /\ completeTimers = 0
  /\ resolved = NULL /\ choice = "none"
  /\ attemptsSinceOpen = 0 /\ applied = FALSE
  /\ response = <<>> /\ lastSelectedId = NoId
  /\ selectedCollectionId = FirstCollection
  /\ loads = {LoadRequest(FirstCollection, NoFilter),
              LoadRequest(FirstCollection, columnFilters)}
  /\ idFetches = {} /\ toggles = <<>>
  /\ lastSelectAll = NULL /\ lastClick = "none"
  /\ removeCalls = {}

Init ==
  /\ columnFilters = NoFilter
  /\ likedList = {} /\ ignoredList = {}
  /\ IsFreshPage
  /\ notification = "none"
  /\ terminal = "none"
  /\ opClock = 0

\* ------------------------------------------------------------ collaborators
\* checkConflicts answers with a partition of the checked ids into safe,
\* duplicate and conflicting ones; a conflicting company has one entry per
\* status list it is found in.
Groups == {"safe", "dup", "liked", "ignored", "both"}

EntriesFor(id, g) ==
  CASE g = "liked" -> <<[company_id |-> id, conflict_type |-> "in_liked"]>>
    [] g = "ignored" -> <<[company_id |-> id, conflict_type |-> "in_ignored"]>>
    [] g = "both" -> <<[company_id |-> id, conflict_type |-> "in_liked"],
                       [company_id |-> id, conflict_type |-> "in_ignored"]>>
    [] OTHER -> <<>>

RECURSIVE ConflictList(_, _)
ConflictList(ids, g) ==
  IF ids = <<>> THEN <<>>
  ELSE EntriesFor(Head(ids), g[Head(ids)]) \o ConflictList(Tail(ids), g)

ReportOf(ids, g) ==
  [conflicts |-> ConflictList(ids, g),
   duplicates |-> SelectSeq(ids, LAMBDA i : g[i] = "dup"),
   safe_to_add |-> SelectSeq(ids, LAMBDA i : g[i] = "safe")]

Reports(ids) == {ReportOf(ids, g) : g \in [SeqToSet(ids) -> Groups]}

ConflictIds(report) ==
  {report.conflicts[i].company_id : i \in 1..Len(report.conflicts)}

\* Progress frames as the server pushes them on a socket opened against
\* operations/<id>; a frame that is not JSON reaches the modal as a string.
Frame(id, processed, st) == [operation_id |-> id, processed |-> processed, status |-> st]
RawFrame == [operation_id |-> NoId, processed |-> 0, status |-> "raw"]
FrameStatuses == {"in_progress", "completed", "failed"}

\* --------------------------------------------------------------- AppContent
NoDialogOpen ==
  /\ ~conflictDialog.open
  /\ ~confirmDialog.open
  /\ ~clearStatusesDialog.open
  /\ IsNull(currentOperation)

\* BulkActionBar: rendered for a non-empty selection, its buttons disabled
\* while isLoading; a modal dialog keeps the pointer off the bar.
BarUsable == selectedIds # {} /\ ~isProcessing /\ NoDialogOpen /\ flow = "idle"

ConnectRoom(h, url) == ~CanConnect(h, url) \/ SockRoom(h)
CloseRoom(h) == ~MayReconnect(h) \/ TimerRoom(h)

\* setCurrentOperation(newOp) with the two effects that depend on it.
SetCurrentOperation(newOp) ==
  LET h == urlEffect(HookState, currentOperation, newOp)
      m == modalEffectOn(ModalState, lastMessage, lastMessage, currentOperation, newOp)
  IN /\ UrlOf(currentOperation) # UrlOf(newOp)
        => ConnectRoom(disconnect(HookState), UrlOf(newOp))
     /\ TimerRoomFor(m)
     /\ currentOperation' = newOp
     /\ SetHook(h)
     /\ SetModal(m)

HasIssues(report) == Len(report.conflicts) > 0 \/ Len(report.duplicates) > 0

\* Bound on the operations of one run: MaxOps of them, and one more on a
\* page whose progress modal still holds the count of an earlier operation
\* and whose notification the user has closed.
OpRoom ==
  \/ opClock < MaxOps
  \/ opClock = MaxOps /\ processedCount > 0 /\ notification = "none"

\* proceedWithBulkAdd up to its first await (also the body of the bulk
\* remove confirmation, which differs only in the call it makes).
ProceedStart(companyIds, kind) ==
  /\ OpRoom
  /\ opClock' = opClock + 1
  /\ isProcessing' = TRUE
  /\ predictedOperationId' = PredictedId(opClock + 1)
  /\ SetCurrentOperation(Some([id |-> PredictedId(opClock + 1),
                               total |-> Len(companyIds), processed |-> 0]))
  /\ flow' = "waitWs"
  /\ flowIds' = companyIds
  /\ flowKind' = kind
  /\ terminal' = "none"

HandleBulkAdd ==
  /\ BarUsable
  /\ isProcessing' = TRUE
  /\ flow' = "checkConflicts"
  /\ flowIds' = SetToSeq(selectedIds)
  /\ flowKind' = "add"
  /\ UNCHANGED <<selVars, currentOperation, notification, conflictDialog, confirmDialog,
                 clearStatusesDialog, predictedOperationId, hookVars, modalVars, histVars>>
  /\ UNCHANGED tableVars

OpensDialog(conflictCheck) == HasIssues(conflictCheck)

CheckConflictsOk(conflictCheck) ==
  /\ flow = "checkConflicts"
  /\ IF OpensDialog(conflictCheck)
     THEN /\ conflictDialog' = [open |-> TRUE, conflictInfo |-> Some(conflictCheck),
                                companyIds |-> flowIds]
          /\ isProcessing' = FALSE
          /\ flow' = "idle" /\ flowIds' = <<>> /\ flowKind' = "none"
          /\ resolved' = NULL /\ choice' = "none"
          /\ UNCHANGED <<currentOperation, predictedOperationId, opClock, terminal,
                         wsRef, reconnectTimeoutRef, reconnectAttemptsRef, sockets, timers,
                         modalVars>>
     ELSE /\ ProceedStart(flowIds, "add")
          /\ resolved' = Some(conflictCheck) /\ choice' = "none"
          /\ UNCHANGED conflictDialog
  /\ UNCHANGED <<selVars, notification, confirmDialog, clearStatusesDialog, lastMessage,
                 attemptsSinceOpen, applied>>
  /\ UNCHANGED tableVars

\* A catch block that reports the failure but leaves the controls disabled.
CheckConflictsFailStillProcessing ==
  /\ flow = "checkConflicts"
  /\ notification' = "conflict_check_failed"
  /\ isProcessing' = isProcessing
  /\ flow' = "idle" /\ flowIds' = <<>> /\ flowKind' = "none"
  /\ UNCHANGED <<selVars, currentOperation, conflictDialog, confirmDialog,
                 clearStatusesDialog, predictedOperationId, hookVars, modalVars, histVars>>
  /\ UNCHANGED tableVars

CheckConflictsFail ==
  /\ flow = "checkConflicts"
  /\ notification' = "conflict_check_failed"
  /\ isProcessing' = FALSE
  /\ flow' = "idle" /\ flowIds' = <<>> /\ flowKind' = "none"
  /\ UNCHANGED <<selVars, currentOperation, conflictDialog, confirmDialog,
                 clearStatusesDialog, predictedOperationId, hookVars, modalVars, histVars>>
  /\ UNCHANGED tableVars

\* ConflictResolutionDialog onResolve
MoveIds(conflictInfo) ==
  conflictInfo.safe_to_add
    \o [i \in 1..Len(conflictInfo.conflicts) |-> conflictInfo.conflicts[i].company_id]

\* A skip branch that forgets to leave the conflicting companies out.
SkipIdsWithConflicts(conflictInfo) ==
  conflictInfo.safe_to_add
    \o [i \in 1..Len(conflictInfo.conflicts) |-> conflictInfo.conflicts[i].company_id]

SkipIds(conflictInfo) == conflictInfo.safe_to_add

IdsToAdd(conflictInfo, action) ==
  CASE action = "move" -> MoveIds(conflictInfo)
    [] action = "skip" -> SkipIds(conflictInfo)
    [] OTHER -> <<>>

ActionsOffered(conflictInfo) ==
  {"cancel", "move"} \cup (IF Len(conflictInfo.conflicts) > 0 THEN {"skip"} ELSE {})

\* A dispatch test that lets every list through.
MayDispatchAlways(idsToAdd) == Len(idsToAdd) >= 0

MayDispatch(idsToAdd) == Len(idsToAdd) > 0

\* An onResolve whose cancel case falls through to the dispatch test.
OnResolveWithoutEarlyReturn(action) ==
  /\ conflictDialog.open
  /\ action \in ActionsOffered(Val(conflictDialog.conflictInfo))
  /\ conflictDialog' = ClosedConflictDialog
  /\ IF FALSE
     THEN /\ choice' = "cancel"
          /\ UNCHANGED <<isProcessing, currentOperation, notification, flowVars,
                         wsRef, reconnectTimeoutRef, reconnectAttemptsRef, sockets, timers,
                         modalVars, opClock, resolved, terminal>>
     ELSE LET idsToAdd == IdsToAdd(Val(conflictDialog.conflictInfo), action)
          IN IF MayDispatch(idsToAdd)
             THEN /\ ProceedStart(idsToAdd, "add")
                  /\ resolved' = conflictDialog.conflictInfo
                  /\ choice' = action
                  /\ UNCHANGED notification
             ELSE /\ notification' = "nothing_to_add"
                  /\ UNCHANGED <<isProcessing, currentOperation, flowVars,
                                 wsRef, reconnectTimeoutRef, reconnectAttemptsRef, sockets,
                                 timers, modalVars, opClock, resolved, choice, terminal>>
  /\ UNCHANGED <<selVars, confirmDialog, clearStatusesDialog, lastMessage,
                 attemptsSinceOpen, applied>>
  /\ UNCHANGED tableVars

OnResolve(action) ==
  /\ conflictDialog.open
  /\ action \in ActionsOffered(Val(conflictDialog.conflictInfo))
  /\ conflictDialog' = ClosedConflictDialog
  /\ IF action = "cancel"
     THEN /\ choice' = "cancel"
          /\ UNCHANGED <<isProcessing, currentOperation, notification, flowVars,
                         wsRef, reconnectTimeoutRef, reconnectAttemptsRef, sockets, timers,
                         modalVars, opClock, resolved, terminal>>
     ELSE LET idsToAdd == IdsToAdd(Val(conflictDialog.conflictInfo), action)
          IN IF MayDispatch(idsToAdd)
             THEN /\ ProceedStart(idsToAdd, "add")
                  /\ resolved' = conflictDialog.conflictInfo
                  /\ choice' = action
                  /\ UNCHANGED notification
             ELSE /\ notification' = "nothing_to_add"
                  /\ UNCHANGED <<isProcessing, currentOperation, flowVars,
                                 wsRef, reconnectTimeoutRef, reconnectAttemptsRef, sockets,
                                 timers, modalVars, opClock, resolved, choice, terminal>>
  /\ UNCHANGED <<selVars, confirmDialog, clearStatusesDialog, lastMessage,
                 attemptsSinceOpen, applied>>
  /\ UNCHANGED tableVars

\* proceedWithBulkAdd after the 200 ms wait: the bulk call goes out with the
\* ids the handler was given.
WaitWsDone ==
  /\ flow = "waitWs"
  /\ flow' = "bulkCall"
  /\ UNCHANGED <<selVars, appVars, flowIds, flowKind, predictedOperationId,
                 hookVars, modalVars, histVars>>
  /\ UNCHANGED tableVars

Rekey(op, operation_id) ==
  IF IsNull(op) THEN NULL ELSE Some([Val(op) EXCEPT !.id = operation_id])

BulkCallOk(operation_id) ==
  /\ flow = "bulkCall"
  /\ operation_id \in ServerIds(opClock)
  /\ IF operation_id # predictedOperationId
     THEN SetCurrentOperation(Rekey(currentOperation, operation_id))
     ELSE UNCHANGED <<currentOperation, wsRef, reconnectTimeoutRef, reconnectAttemptsRef,
                      sockets, timers, modalVars>>
  /\ flow' = "idle" /\ flowIds' = <<>> /\ flowKind' = "none"
  /\ predictedOperationId' = NoId
  /\ resolved' = NULL /\ choice' = "none"
  /\ UNCHANGED <<selVars, isProcessing, notification, conflictDialog, confirmDialog,
                 clearStatusesDialog, lastMessage, opClock, terminal, attemptsSinceOpen,
                 applied>>
  /\ UNCHANGED tableVars

BulkCallFail ==
  /\ flow = "bulkCall"
  /\ notification' = "dispatch_failed"
  /\ isProcessing' = FALSE
  /\ SetCurrentOperation(NULL)
  /\ flow' = "idle" /\ flowIds' = <<>> /\ flowKind' = "none"
  /\ predictedOperationId' = NoId
  /\ resolved' = NULL /\ choice' = "none"
  /\ terminal' = "failure"
  /\ UNCHANGED <<selVars, conflictDialog, confirmDialog, clearStatusesDialog,
                 lastMessage, opClock, attemptsSinceOpen, applied>>
  /\ UNCHANGED tableVars

\* handleBulkRemove and the ConfirmationDialog it opens
HandleBulkRemove ==
  /\ BarUsable
  /\ confirmDialog' = [open |-> TRUE, companyIds |-> SetToSeq(selectedIds)]
  /\ UNCHANGED <<selVars, isProcessing, currentOperation, notification, conflictDialog,
                 clearStatusesDialog, flowVars, hookVars, modalVars, histVars>>
  /\ UNCHANGED tableVars

ConfirmRemove ==
  /\ confirmDialog.open
  /\ confirmDialog' = ClosedConfirmDialog
  /\ ProceedStart(confirmDialog.companyIds, "remove")
  /\ resolved' = NULL /\ choice' = "confirm"
  /\ UNCHANGED <<selVars, notification, conflictDialog, clearStatusesDialog, lastMessage,
                 attemptsSinceOpen, applied>>
  /\ UNCHANGED tableVars

CancelRemove ==
  /\ confirmDialog.open
  /\ confirmDialog' = ClosedConfirmDialog
  /\ UNCHANGED <<selVars, isProcessing, currentOperation, notification, conflictDialog,
                 clearStatusesDialog, flowVars, hookVars, modalVars, histVars>>
  /\ UNCHANGED tableVars

\* handleClearStatuses, ClearStatusesDialog, handleClearStatusesConfirm
HandleClearStatuses ==
  /\ BarUsable
  /\ isProcessing' = TRUE
  /\ flow' = "checkStatuses"
  /\ flowIds' = SetToSeq(selectedIds)
  /\ flowKind' = "clear"
  /\ UNCHANGED <<selVars, currentOperation, notification, conflictDialog, confirmDialog,
                 clearStatusesDialog, predictedOperationId, hookVars, modalVars, histVars>>
  /\ UNCHANGED tableVars

CheckStatusesOk(liked, ignored) ==
  /\ flow = "checkStatuses"
  /\ liked \subseteq SeqToSet(flowIds)
  /\ ignored \subseteq SeqToSet(flowIds) \ liked
  /\ isProcessing' = FALSE
  /\ clearStatusesDialog' = [open |-> TRUE,
                             likedCount |-> Cardinality(liked),
                             ignoredCount |-> Cardinality(ignored),
                             likedIds |-> SetToSeq(liked),
                             ignoredIds |-> SetToSeq(ignored)]
  /\ flow' = "idle" /\ flowIds' = <<>> /\ flowKind' = "none"
  /\ UNCHANGED <<selVars, currentOperation, notification, conflictDialog, confirmDialog,
                 predictedOperationId, hookVars, modalVars, histVars>>
  /\ UNCHANGED tableVars

CheckStatusesFail ==
  /\ flow = "checkStatuses"
  /\ notification' = "status_check_failed"
  /\ isProcessing' = FALSE
  /\ flow' = "idle" /\ flowIds' = <<>> /\ flowKind' = "none"
  /\ UNCHANGED <<selVars, currentOperation, conflictDialog, confirmDialog,
                 clearStatusesDialog, predictedOperationId, hookVars, modalVars, histVars>>
  /\ UNCHANGED tableVars

ClearStatusesClose ==
  /\ clearStatusesDialog.open
  /\ clearStatusesDialog' = ClosedClearStatusesDialog
  /\ UNCHANGED <<selVars, isProcessing, currentOperation, notification, conflictDialog,
                 confirmDialog, flowVars, hookVars, modalVars, histVars>>
  /\ UNCHANGED tableVars

\* Up to the await of Promise.all: one bulkRemove per non-empty status list.
HandleClearStatusesConfirm ==
  /\ clearStatusesDialog.open
  /\ clearStatusesDialog' = [clearStatusesDialog EXCEPT !.open = FALSE]
  /\ isProcessing' = TRUE
  /\ flow' = "clearing"
  /\ flowKind' = "clear"
  /\ UNCHANGED <<selVars, currentOperation, notification, conflictDialog, confirmDialog,
                 flowIds, predictedOperationId, hookVars, modalVars, histVars>>
  /\ UNCHANGED tableVars

RemovalsIssued ==
  {c \in {"liked", "ignored"} :
     \/ c = "liked" /\ clearStatusesDialog.likedCount > 0
     \/ c = "ignored" /\ clearStatusesDialog.ignoredCount > 0}

\* After Promise.all: each removal's rejection was swallowed by its own
\* catch, so the success branch runs whatever `failed` is: notification,
\* reload, and (finally) setIsProcessing(false), clearSelection().
ClearStatusesSettled(failed) ==
  /\ flow = "clearing"
  /\ failed \subseteq RemovalsIssued
  /\ notification' = "statuses_cleared"
  /\ FreshPage
  /\ UNCHANGED <<opClock, terminal>>

RemovalFailed == \E failed \in SUBSET {"liked", "ignored"} :
                    failed # {} /\ ClearStatusesSettled(failed)

\* handleSelectAll of AppContent ("Select all N" of the bar)
HandleSelectAll ==
  /\ BarUsable
  /\ ~isAllSelected
  /\ totalInCollection > Cardinality(selectedIds)
  /\ isProcessing' = TRUE
  /\ flow' = "selectAll"
  /\ UNCHANGED <<selVars, currentOperation, notification, conflictDialog, confirmDialog,
                 clearStatusesDialog, flowIds, flowKind, predictedOperationId, hookVars,
                 modalVars, histVars>>
  /\ UNCHANGED tableVars

SelectAllOk ==
  /\ flow = "selectAll"
  /\ selectAll(Ids)
  /\ isProcessing' = FALSE
  /\ flow' = "idle"
  /\ UNCHANGED <<totalInCollection, currentOperation, notification, conflictDialog,
                 confirmDialog, clearStatusesDialog, flowIds, flowKind,
                 predictedOperationId, hookVars, modalVars, histVars>>
  /\ lastSelectAll' = Some(Ids)
  /\ UNCHANGED <<response, lastSelectedId, loads, idFetches, toggles,
                 selectedCollectionId, columnFilters, lastClick, removeCalls>>
  /\ UNCHANGED serverVars

SelectAllFail ==
  /\ flow = "selectAll"
  /\ isProcessing' = FALSE
  /\ flow' = "idle"
  /\ UNCHANGED <<selVars, currentOperation, notification, conflictDialog,
                 confirmDialog, clearStatusesDialog, flowIds, flowKind,
                 predictedOperationId, hookVars, modalVars, histVars>>
  /\ UNCHANGED tableVars

\* Snackbar / Alert onClose: the notification is closed
NotificationClose ==
  /\ notification # "none"
  /\ notification' = "none"
  /\ UNCHANGED <<selVars, isProcessing, currentOperation, conflictDialog, confirmDialog,
                 clearStatusesDialog, flowVars, hookVars, modalVars, histVars>>
  /\ UNCHANGED tableVars

\* ProgressModal onClose={() => setCurrentOperation(null)}
ModalClose ==
  /\ ~IsNull(currentOperation)
  /\ canClose
  /\ SetCurrentOperation(NULL)
  /\ UNCHANGED <<selVars, isProcessing, notification, conflictDialog, confirmDialog,
                 clearStatusesDialog, flowVars, lastMessage, histVars>>
  /\ UNCHANGED tableVars

\* handleOperationComplete, run by the timeout the modal scheduled. Its
\* setCurrentOperation(null), setIsProcessing(false) and clearSelection()
\* are subsumed by the reload that ends it.
handleOperationComplete ==
  /\ notification' = "op_success"
  /\ terminal' = "success"
  /\ FreshPage
  /\ UNCHANGED opClock

CompleteTimerFire ==
  /\ completeTimers > 0
  /\ handleOperationComplete

\* ------------------------------------------------------- socket and timers
Live(s) == sockets[s].st \in {"CONNECTING", "OPEN"}

\* ws.onopen
WsOpen(s) ==
  /\ sockets[s].st = "CONNECTING"
  /\ sockets' = [sockets EXCEPT ![s].st = "OPEN"]
  /\ reconnectAttemptsRef' = 0
  /\ attemptsSinceOpen' = 0
  /\ UNCHANGED <<selVars, appVars, flowVars, wsRef, reconnectTimeoutRef, lastMessage,
                 timers, modalVars, opClock, resolved, choice, terminal, applied>>
  /\ UNCHANGED tableVars

\* ws.onmessage with a JSON frame, and the modal effect it triggers
Receive(msg) ==
  /\ lastMessage' = Some(msg)
  /\ TimerRoomFor(modalEffect(ModalState, Some(msg), currentOperation))
  /\ SetModal(modalEffect(ModalState, Some(msg), currentOperation))
  /\ applied' = MessageMatches(Some(msg), currentOperation)

WsMessage(s, processed, st) ==
  /\ sockets[s].st = "OPEN"
  /\ Receive(Frame(sockets[s].url, processed, st))
  /\ UNCHANGED <<selVars, appVars, flowVars, wsRef, reconnectTimeoutRef,
                 reconnectAttemptsRef, sockets, timers, opClock, resolved, choice,
                 terminal, attemptsSinceOpen>>
  /\ UNCHANGED tableVars

\* ws.onmessage with a frame JSON.parse rejects: the string becomes lastMessage
WsBadFrame(s) ==
  /\ sockets[s].st = "OPEN"
  /\ lastMessage # Some(RawFrame)
  /\ Receive(RawFrame)
  /\ UNCHANGED <<selVars, appVars, flowVars, wsRef, reconnectTimeoutRef,
                 reconnectAttemptsRef, sockets, timers, opClock, resolved, choice,
                 terminal, attemptsSinceOpen>>
  /\ UNCHANGED tableVars

\* The close event of socket s, whoever closed it
CloseEvent(s) ==
  /\ CloseRoom(HookState)
  /\ SetHook(onclose(HookState, s))
  /\ UNCHANGED <<selVars, appVars, flowVars, lastMessage, modalVars, histVars>>
  /\ UNCHANGED tableVars

\* the connection fails or the server side goes away
WsLost(s) ==
  /\ Live(s)
  /\ CloseEvent(s)

\* the close event that follows ws.close()
WsClosed(s) ==
  /\ sockets[s].st = "CLOSING"
  /\ CloseEvent(s)

\* the reconnect timeout: connect() of the render that created the socket
ReconnectTimerFire(t) ==
  LET h0 == [HookState EXCEPT !.timers[t] = NoTimer,
                              !.reconnectTimeoutRef = IF @ = t THEN 0 ELSE @]
  IN /\ timers[t] # NoTimer
     /\ ConnectRoom(h0, timers[t])
     /\ SetHook(connect(h0, timers[t]))
     /\ attemptsSinceOpen' = IF CanConnect(h0, timers[t])
                             THEN attemptsSinceOpen + 1 ELSE attemptsSinceOpen
     /\ UNCHANGED <<selVars, appVars, flowVars, lastMessage, modalVars,
                    opClock, resolved, choice, terminal, applied>>
     /\ UNCHANGED tableVars

\* ----------------------------------------------------------- table events
\* the page load that reports the collection's size
TableLoaded ==
  /\ totalInCollection # NumIds
  /\ totalInCollection' = NumIds
  /\ UNCHANGED <<selectedIds, isAllSelected, appVars, flowVars, hookVars, modalVars,
                 histVars>>
  /\ UNCHANGED tableVars

RowToggle(companyId) ==
  /\ NoDialogOpen
  /\ toggleSelection(companyId)
  /\ UNCHANGED <<totalInCollection, appVars, flowVars, hookVars, modalVars, histVars>>
  /\ UNCHANGED tableVars

EscapeKey ==
  /\ selectedIds # {}
  /\ clearSelection
  /\ UNCHANGED <<totalInCollection, appVars, flowVars, hookVars, modalVars, histVars>>
  /\ UNCHANGED tableVars

\* ------------------------------------------------ collaborators of the table
\* The collections endpoint. Collection c holds the companies c..NumIds; a
\* page holds every company of the collection that the filter lets
\* through, in the order of the sort, and `total` counts them. The id
\* endpoint of "select all" takes no filter.
Members(collectionId) == {i \in Ids : i >= collectionId}
Matching(request) == {i \in Members(request.collection) : i <= request.filter}
Orders(S) == {o \in [1..Cardinality(S) -> S] : NoRepeats(o)}

\* pages of a server on which no company is liked or ignored, in any order
PlainPages(request) ==
  {[i \in 1..Len(o) |-> Company(o[i], FALSE, FALSE)] : o \in Orders(Matching(request))}

\* the page the server answers with now: id order, each row flagged by the
\* status lists it is on
ServerPage(request) ==
  LET o == SetToSeq(Matching(request))
  IN [i \in 1..Len(o) |-> Company(o[i], o[i] \in likedList, o[i] \in ignoredList)]

\* the bulk endpoints applied to a status list
ApplyCall(call, list, members) ==
  IF call.list # list THEN members
  ELSE IF call.op = "add" THEN members \cup {call.companyId}
  ELSE members \ {call.companyId}

\* ----------------------------------------------------- EnhancedCompanyTable
currentPageIds == [i \in 1..Len(response) |-> response[i].id]

\* Array.prototype.indexOf, with positions from 1 and 0 for "not found"
indexOf(s, x) ==
  IF \E i \in 1..Len(s) : s[i] = x
  THEN MinOf({i \in 1..Len(s) : s[i] = x})
  ELSE 0

minIdx(startIdx, endIdx) == IF startIdx <= endIdx THEN startIdx ELSE endIdx
maxIdx(startIdx, endIdx) == IF startIdx <= endIdx THEN endIdx ELSE startIdx

\* A range loop that stops one row short of the far end.
RangeToToggleShort(ids, startIdx, endIdx, selected) ==
  LET NotSelected(id) == id \notin selected
  IN SelectSeq(SubSeq(ids, minIdx(startIdx, endIdx), maxIdx(startIdx, endIdx) - 1),
               NotSelected)

\* the ids the range loop toggles: the rows from minIdx to maxIdx that the
\* rendered selection does not hold
RangeToToggle(ids, startIdx, endIdx, selected) ==
  LET NotSelected(id) == id \notin selected
  IN SelectSeq(SubSeq(ids, minIdx(startIdx, endIdx), maxIdx(startIdx, endIdx)),
               NotSelected)

\* toggleSelection called once per id: the updaters run in order, each on
\* the set the one before it returned
RECURSIVE ToggleEach(_, _, _, _)
ToggleEach(set, flag, ids, total) ==
  IF ids = <<>> THEN [set |-> set, flag |-> flag]
  ELSE LET newSet == ToggleSet(set, Head(ids))
       IN ToggleEach(newSet, ToggleAllFlag(flag, newSet, total), Tail(ids), total)

\* the load effect: a request for the page of the collection under the filter
StartLoad(collectionId, filter) ==
  /\ loads' = loads \cup {LoadRequest(collectionId, filter)}
  /\ Cardinality(loads') <= MaxLoads

\* getCollectionsById(...).then: whichever request answers is rendered
LoadDone(request, companies) ==
  /\ request \in loads
  /\ response' = companies
  /\ totalInCollection' = Len(companies)
  /\ loads' = loads \ {request}
  /\ UNCHANGED <<selectedIds, isAllSelected, appVars, flowVars, hookVars, modalVars,
                 histVars, lastSelectedId, idFetches, toggles, selectedCollectionId,
                 columnFilters, lastSelectAll, lastClick,
                 removeCalls>>
  /\ UNCHANGED serverVars

\* sidebar click: setSelectedCollectionId, then the load effect and the
\* effect that resets the page offset and clears the selection
SetSelectedCollectionId(collectionId) ==
  /\ NoDialogOpen
  /\ collectionId # selectedCollectionId
  /\ selectedCollectionId' = collectionId
  /\ clearSelection
  /\ StartLoad(collectionId, columnFilters)
  /\ UNCHANGED <<totalInCollection, appVars, flowVars, hookVars, modalVars, histVars,
                 response, lastSelectedId, idFetches, toggles, columnFilters,
                 lastSelectAll, lastClick, removeCalls>>
  /\ UNCHANGED serverVars

\* handleFilterChange: setColumnFilters, then the load effect and the
\* effect that saves the filters
HandleFilterChange(filter) ==
  /\ NoDialogOpen
  /\ filter # columnFilters
  /\ columnFilters' = filter
  /\ StartLoad(selectedCollectionId, filter)
  /\ UNCHANGED <<selVars, appVars, flowVars, hookVars, modalVars, histVars,
                 response, lastSelectedId, idFetches, toggles, selectedCollectionId,
                 lastSelectAll, lastClick, removeCalls>>
  /\ UNCHANGED serverVars

\* onRowClick without a modifier key (or with shift and no anchor yet)
PlainClick(clickedId) ==
  /\ NoDialogOpen
  /\ clickedId \in SeqToSet(currentPageIds)
  /\ selectedIds' = ToggleSet({}, clickedId)
  /\ isAllSelected' = ToggleAllFlag(FALSE, ToggleSet({}, clickedId), totalInCollection)
  /\ lastSelectedId' = clickedId
  /\ lastClick' = "plain"
  /\ UNCHANGED <<totalInCollection, appVars, flowVars, hookVars, modalVars, histVars,
                 response, loads, idFetches, toggles, selectedCollectionId,
                 columnFilters, lastSelectAll, removeCalls>>
  /\ UNCHANGED serverVars

\* onRowClick with ctrl or meta
CtrlClick(clickedId) ==
  /\ NoDialogOpen
  /\ clickedId \in SeqToSet(currentPageIds)
  /\ toggleSelection(clickedId)
  /\ lastSelectedId' = clickedId
  /\ lastClick' = "ctrl"
  /\ UNCHANGED <<totalInCollection, appVars, flowVars, hookVars, modalVars, histVars,
                 response, loads, idFetches, toggles, selectedCollectionId,
                 columnFilters, lastSelectAll, removeCalls>>
  /\ UNCHANGED serverVars

\* onRowClick with shift and an anchor
ShiftClick(clickedId) ==
  /\ NoDialogOpen
  /\ clickedId \in SeqToSet(currentPageIds)
  /\ lastSelectedId # NoId
  /\ LET startIdx == indexOf(currentPageIds, lastSelectedId)
         endIdx == indexOf(currentPageIds, clickedId)
         after == IF startIdx # 0 /\ endIdx # 0
                  THEN ToggleEach(selectedIds, isAllSelected,
                                  RangeToToggle(currentPageIds, startIdx, endIdx,
                                                selectedIds),
                                  totalInCollection)
                  ELSE [set |-> selectedIds, flag |-> isAllSelected]
     IN /\ selectedIds' = after.set
        /\ isAllSelected' = after.flag
  /\ lastSelectedId' = clickedId
  /\ lastClick' = "shift"
  /\ UNCHANGED <<totalInCollection, appVars, flowVars, hookVars, modalVars, histVars,
                 response, loads, idFetches, toggles, selectedCollectionId,
                 columnFilters, lastSelectAll, removeCalls>>
  /\ UNCHANGED serverVars

\* handleSelectAll of the table: the "Select all" button, and Ctrl/Cmd+A,
\* whose keydown listener sits on window and runs whatever dialog is open
TableHandleSelectAll ==
  /\ IF isAllSelected
     THEN /\ clearSelection
          /\ UNCHANGED idFetches
     ELSE /\ idFetches' = idFetches \cup {selectedCollectionId}
          /\ Cardinality(idFetches') <= MaxLoads
          /\ idFetches' # idFetches
          /\ UNCHANGED <<selectedIds, isAllSelected>>
  /\ UNCHANGED <<totalInCollection, appVars, flowVars, hookVars, modalVars, histVars,
                 response, lastSelectedId, loads, toggles, selectedCollectionId,
                 columnFilters, lastSelectAll, lastClick,
                 removeCalls>>
  /\ UNCHANGED serverVars

\* getAllCompanyIdsInCollection answers: selectAll(allIds)
IdsFetched(collectionId) ==
  /\ collectionId \in idFetches
  /\ selectAll(Members(collectionId))
  /\ lastSelectAll' = Some(Members(collectionId))
  /\ idFetches' = idFetches \ {collectionId}
  /\ UNCHANGED <<totalInCollection, appVars, flowVars, hookVars, modalVars, histVars,
                 response, lastSelectedId, loads, toggles, selectedCollectionId,
                 columnFilters, lastClick, removeCalls>>
  /\ UNCHANGED serverVars

\* getAllCompanyIdsInCollection rejects: logged, nothing selected
IdsFetchFailed(collectionId) ==
  /\ collectionId \in idFetches
  /\ idFetches' = idFetches \ {collectionId}
  /\ UNCHANGED <<selVars, appVars, flowVars, hookVars, modalVars, histVars,
                 response, lastSelectedId, loads, toggles, selectedCollectionId,
                 columnFilters, lastSelectAll, lastClick,
                 removeCalls>>
  /\ UNCHANGED serverVars

\* the Delete shortcut (window keydown listener, any selection): after
\* window.confirm, bulkRemoveCompanies(selectedCollectionId, ids) is called
\* by the table itself, outside the bulk flow of AppContent (bounded: one
\* such call in flight)
RemoveCall(collectionId, ids) == [collection |-> collectionId, ids |-> ids]

DeleteKey ==
  /\ selectedIds # {}
  /\ removeCalls' = removeCalls \cup {RemoveCall(selectedCollectionId, selectedIds)}
  /\ removeCalls = {}
  /\ UNCHANGED <<selVars, appVars, flowVars, hookVars, modalVars, histVars,
                 response, lastSelectedId, loads, idFetches, toggles,
                 selectedCollectionId, columnFilters, lastSelectAll, lastClick>>
  /\ UNCHANGED serverVars

\* the shortcut's call resolves: .then(() => window.location.reload())
DeleteDone(call) ==
  /\ call \in removeCalls
  /\ FreshPage
  /\ UNCHANGED <<notification, opClock, terminal>>

\* the shortcut's call rejects: the promise has no catch, nothing changes
DeleteFail(call) ==
  /\ call \in removeCalls
  /\ removeCalls' = removeCalls \ {call}
  /\ UNCHANGED <<selVars, appVars, flowVars, hookVars, modalVars, histVars,
                 response, lastSelectedId, loads, idFetches, toggles,
                 selectedCollectionId, columnFilters, lastSelectAll, lastClick>>
  /\ UNCHANGED serverVars

\* ------------------------------------------------------------ status toggle
\* the status cell: liked wins over ignored
StatusOf(company) ==
  IF company.liked THEN "liked"
  ELSE IF company.ignored THEN "ignored"
  ELSE "none"

\* the optimistic row: none -> liked -> ignored -> none
Cycle(company, currentStatus) ==
  CASE currentStatus = "none" -> [company EXCEPT !.liked = TRUE, !.ignored = FALSE]
    [] currentStatus = "liked" -> [company EXCEPT !.liked = FALSE, !.ignored = TRUE]
    [] OTHER -> [company EXCEPT !.liked = FALSE, !.ignored = FALSE]

Call(op, list, companyId) == [op |-> op, list |-> list, companyId |-> companyId]

\* A try block that adds to the ignore list before it removes from liked.
CallPlanAddFirst(currentStatus, companyId) ==
  CASE currentStatus = "none" -> <<Call("add", "liked", companyId)>>
    [] currentStatus = "liked" -> <<Call("add", "ignored", companyId),
                                    Call("remove", "liked", companyId)>>
    [] OTHER -> <<Call("remove", "ignored", companyId)>>

\* the awaited calls of the try block, in order
CallPlan(currentStatus, companyId) ==
  CASE currentStatus = "none" -> <<Call("add", "liked", companyId)>>
    [] currentStatus = "liked" -> <<Call("remove", "liked", companyId),
                                    Call("add", "ignored", companyId)>>
    [] OTHER -> <<Call("remove", "ignored", companyId)>>

\* A handleStatusToggle in flight: `issued` are the calls made so far,
\* `returned` counts those that resolved, `at` is the await it stands at.
StatusToggle(companyId, currentStatus) ==
  [companyId |-> companyId, currentStatus |-> currentStatus,
   issued |-> SubSeq(CallPlan(currentStatus, companyId), 1, 1),
   returned |-> 0, at |-> "call"]

\* the handlers in flight without the k-th
RemoveAt(seq, k) == SubSeq(seq, 1, k - 1) \o SubSeq(seq, k + 1, Len(seq))

\* Handlers in flight are capped at MaxToggles, except that a second one
\* may always start for the company whose handler is the only one in flight.
ToggleRoom(companyId) ==
  \/ Len(toggles) < MaxToggles
  \/ /\ Len(toggles) = 1
     /\ toggles[1].companyId = companyId

MaxInFlight == MaxToggles + 1

\* click on the status button of a row: the optimistic setResponse and the
\* first call
HandleStatusToggle(companyId) ==
  /\ NoDialogOpen
  /\ ToggleRoom(companyId)
  /\ \E i \in 1..Len(response) :
       /\ response[i].id = companyId
       /\ response' = [j \in 1..Len(response) |->
                         IF response[j].id = companyId
                         THEN Cycle(response[j], StatusOf(response[i]))
                         ELSE response[j]]
       /\ toggles' = Append(toggles, StatusToggle(companyId, StatusOf(response[i])))
  /\ UNCHANGED <<selVars, appVars, flowVars, hookVars, modalVars, histVars,
                 lastSelectedId, loads, idFetches, selectedCollectionId,
                 columnFilters, lastSelectAll, lastClick,
                 removeCalls>>
  /\ UNCHANGED serverVars

\* the call a handler in flight is waiting for
Awaited(toggle) == toggle.issued[Len(toggle.issued)]

\* the awaited call resolves (the server has applied it): the next call of
\* the try block, or the end
CallOk(k) ==
  /\ k \in 1..Len(toggles)
  /\ toggles[k].at = "call"
  /\ likedList' = ApplyCall(Awaited(toggles[k]), "liked", likedList)
  /\ ignoredList' = ApplyCall(Awaited(toggles[k]), "ignored", ignoredList)
  /\ LET plan == CallPlan(toggles[k].currentStatus, toggles[k].companyId)
         n == Len(toggles[k].issued)
     IN IF n < Len(plan)
        THEN toggles' = [toggles EXCEPT ![k].issued = Append(@, plan[n + 1]),
                                        ![k].returned = @ + 1]
        ELSE toggles' = RemoveAt(toggles, k)
  /\ UNCHANGED <<selVars, appVars, flowVars, hookVars, modalVars, histVars,
                 response, lastSelectedId, loads, idFetches, selectedCollectionId,
                 columnFilters, lastSelectAll, lastClick,
                 removeCalls>>

\* the awaited call rejects, whether or not the server applied it: the
\* catch block asks for the page again
CallFail(k, reached) ==
  /\ k \in 1..Len(toggles)
  /\ toggles[k].at = "call"
  /\ IF reached
     THEN /\ likedList' = ApplyCall(Awaited(toggles[k]), "liked", likedList)
          /\ ignoredList' = ApplyCall(Awaited(toggles[k]), "ignored", ignoredList)
     ELSE UNCHANGED serverVars
  /\ toggles' = [toggles EXCEPT ![k].at = "reload"]
  /\ UNCHANGED <<selVars, appVars, flowVars, hookVars, modalVars, histVars,
                 response, lastSelectedId, loads, idFetches, selectedCollectionId,
                 columnFilters, lastSelectAll, lastClick,
                 removeCalls>>

\* the catch block's getCollectionsById (no filter parameters) resolves
ReloadDone(k, companies) ==
  /\ k \in 1..Len(toggles)
  /\ toggles[k].at = "reload"
  /\ response' = companies
  /\ totalInCollection' = Len(companies)
  /\ toggles' = RemoveAt(toggles, k)
  /\ UNCHANGED <<selectedIds, isAllSelected, appVars, flowVars, hookVars, modalVars,
                 histVars, lastSelectedId, loads, idFetches, selectedCollectionId,
                 columnFilters, lastSelectAll, lastClick,
                 removeCalls>>
  /\ UNCHANGED serverVars

\* the catch block's getCollectionsById rejects: nothing is rendered anew
ReloadFail(k) ==
  /\ k \in 1..Len(toggles)
  /\ toggles[k].at = "reload"
  /\ toggles' = RemoveAt(toggles, k)
  /\ UNCHANGED <<selVars, appVars, flowVars, hookVars, modalVars, histVars,
                 response, lastSelectedId, loads, idFetches, selectedCollectionId,
                 columnFilters, lastSelectAll, lastClick,
                 removeCalls>>
  /\ UNCHANGED serverVars

\* ------------------------------------------------------------ specification
\* The progress channel: one selected company, conflict checks that find
\* nothing, and every socket, timer and progress-frame event.
CleanReport(ids) == ReportOf(ids, [i \in SeqToSet(ids) |-> "safe"])

ChannelUser ==
  \/ RowToggle(1)
  \/ HandleBulkAdd
  \/ ModalClose

ChannelServer ==
  \/ CheckConflictsOk(CleanReport(flowIds))
  \/ \E id \in OpIds : BulkCallOk(id)
  \/ BulkCallFail
  \/ \E s \in 1..MaxSockets : WsOpen(s)
  \/ \E s \in 1..MaxSockets, p \in 0..MaxProcessed, st \in FrameStatuses : WsMessage(s, p, st)
  \/ \E s \in 1..MaxSockets : WsBadFrame(s)
  \/ \E s \in 1..MaxSockets : WsLost(s)

TimerNext ==
  \/ WaitWsDone
  \/ CompleteTimerFire
  \/ \E s \in 1..MaxSockets : WsClosed(s)
  \/ \E t \in 1..MaxTimers : ReconnectTimerFire(t)

ChannelNext == ChannelUser \/ ChannelServer \/ TimerNext

ChannelSpec == Init /\ [][ChannelNext]_vars

\* The frames of one tracked bulk add: the channel opens, the server pushes
\* frames of any kind, and the call and the modal's timer come back; no
\* connection is lost.
FrameServer ==
  \/ CheckConflictsOk(CleanReport(flowIds))
  \/ \E id \in OpIds : BulkCallOk(id)
  \/ \E s \in 1..MaxSockets : WsOpen(s)
  \/ \E s \in 1..MaxSockets, p \in 0..MaxProcessed, st \in FrameStatuses : WsMessage(s, p, st)
  \/ \E s \in 1..MaxSockets : WsBadFrame(s)

FrameNext ==
  \/ RowToggle(1)
  \/ HandleBulkAdd
  \/ FrameServer
  \/ WaitWsDone
  \/ CompleteTimerFire

FrameSpec == Init /\ [][FrameNext]_vars

\* One bulk add after another: the frames of FrameSpec, a bulk call that
\* may be rejected after the server has pushed progress, the close events
\* of the sockets the page closes, and the user closing the notification.
RetainNext ==
  \/ FrameNext
  \/ BulkCallFail
  \/ NotificationClose
  \/ \E s \in 1..MaxSockets : WsClosed(s)
  \/ \E t \in 1..MaxTimers : ReconnectTimerFire(t)

RetainSpec == Init /\ [][RetainNext]_vars

\* Timeouts the page has set fire, and a socket the page closed gets its
\* close event; nothing is assumed of the user or of the server.
Fairness ==
  /\ WF_vars(WaitWsDone)
  /\ WF_vars(CompleteTimerFire)
  /\ WF_vars(\E s \in 1..MaxSockets : WsClosed(s))
  /\ WF_vars(\E t \in 1..MaxTimers : ReconnectTimerFire(t))

FairChannelSpec == ChannelSpec /\ Fairness

\* The coordinator: every user flow and every collaborator answer, with a
\* channel that connects, reports completion and is closed by the page.
CoordUser ==
  \/ \E id \in Ids : RowToggle(id)
  \/ EscapeKey
  \/ HandleSelectAll
  \/ HandleBulkAdd
  \/ \E action \in {"cancel", "move", "skip"} : OnResolve(action)
  \/ HandleBulkRemove
  \/ ConfirmRemove
  \/ CancelRemove
  \/ HandleClearStatuses
  \/ ClearStatusesClose
  \/ HandleClearStatusesConfirm
  \/ ModalClose

CoordServer ==
  \/ TableLoaded
  \/ SelectAllOk
  \/ SelectAllFail
  \/ \E r \in Reports(flowIds) : CheckConflictsOk(r)
  \/ CheckConflictsFail
  \/ \E id \in OpIds : BulkCallOk(id)
  \/ BulkCallFail
  \/ \E l, i \in SUBSET Ids : CheckStatusesOk(l, i)
  \/ CheckStatusesFail
  \/ \E failed \in SUBSET {"liked", "ignored"} : ClearStatusesSettled(failed)
  \/ \E s \in 1..MaxSockets : WsOpen(s)
  \/ \E s \in 1..MaxSockets : WsMessage(s, MaxProcessed, "completed")

CoordNext == CoordUser \/ CoordServer \/ TimerNext

Spec == Init /\ [][CoordNext]_vars

\* The bulk-add flow alone: selection by row, conflict check, resolution
\* dialog and dispatch, with a server that accepts or rejects the call and
\* pushes no progress; sockets the page closes get their close event and
\* the reconnects they schedule fire.
ResolverUser ==
  \/ \E id \in Ids : RowToggle(id)
  \/ HandleBulkAdd
  \/ \E action \in {"cancel", "move", "skip"} : OnResolve(action)

ResolverServer ==
  \/ \E r \in Reports(flowIds) : CheckConflictsOk(r)
  \/ CheckConflictsFail
  \/ \E id \in OpIds : BulkCallOk(id)
  \/ BulkCallFail

ResolverTimers ==
  \/ WaitWsDone
  \/ \E s \in 1..MaxSockets : WsClosed(s)
  \/ \E t \in 1..MaxTimers : ReconnectTimerFire(t)

ResolverNext == ResolverUser \/ ResolverServer \/ ResolverTimers

ResolverSpec == Init /\ [][ResolverNext]_vars

\* The selection of the table: row clicks, select-all, Escape, collection and
\* filter changes, and the answers of the collections endpoint. No bulk
\* operation runs and no company has a status.
SelectionClicks ==
  \E id \in Ids : PlainClick(id) \/ CtrlClick(id) \/ ShiftClick(id)

SelectionKeys == TableHandleSelectAll \/ EscapeKey

SelectionNavigation ==
  \/ \E collectionId \in Collections : SetSelectedCollectionId(collectionId)
  \/ \E filter \in Filters : HandleFilterChange(filter)

SelectionServer ==
  \/ \E request \in loads : \E companies \in PlainPages(request) :
       LoadDone(request, companies)
  \/ \E collectionId \in Collections :
       IdsFetched(collectionId) \/ IdsFetchFailed(collectionId)

SelectionNext ==
  SelectionClicks \/ SelectionKeys \/ SelectionNavigation \/ SelectionServer

SelectionSpec == Init /\ [][SelectionNext]_vars

\* The writers of the selection while a bulk add runs: the flows of
\* ResolverSpec, the socket's open event and completed frame, the modal,
\* and the table's select-all with the answers of its id fetch.
WriterUser ==
  \/ ResolverUser
  \/ TableHandleSelectAll
  \/ ModalClose

WriterServer ==
  \/ ResolverServer
  \/ \E request \in loads : LoadDone(request, ServerPage(request))
  \/ \E collectionId \in Collections :
       IdsFetched(collectionId) \/ IdsFetchFailed(collectionId)
  \/ \E s \in 1..MaxSockets : WsOpen(s)
  \/ \E s \in 1..MaxSockets : WsMessage(s, MaxProcessed, "completed")

WriterTimers == ResolverTimers \/ CompleteTimerFire

WriterNext == WriterUser \/ WriterServer \/ WriterTimers

WriterSpec == Init /\ [][WriterNext]_vars

\* Every path that ends in a bulk call: the three flows of the bar, the
\* dialogs they open, the table's Delete shortcut, and the answers of the
\* server; no progress is pushed.
DispatchUser ==
  \/ \E id \in Ids : RowToggle(id)
  \/ HandleBulkAdd
  \/ \E action \in {"cancel", "move", "skip"} : OnResolve(action)
  \/ HandleBulkRemove
  \/ ConfirmRemove
  \/ CancelRemove
  \/ HandleClearStatuses
  \/ ClearStatusesClose
  \/ HandleClearStatusesConfirm
  \/ DeleteKey

DispatchServer ==
  \/ ResolverServer
  \/ \E l, i \in SUBSET Ids : CheckStatusesOk(l, i)
  \/ CheckStatusesFail
  \/ \E failed \in SUBSET {"liked", "ignored"} : ClearStatusesSettled(failed)
  \/ \E collectionId \in Collections, ids \in SUBSET Ids :
       \/ DeleteDone(RemoveCall(collectionId, ids))
       \/ DeleteFail(RemoveCall(collectionId, ids))

DispatchNext == DispatchUser \/ DispatchServer \/ WaitWsDone

DispatchSpec == Init /\ [][DispatchNext]_vars

\* The status column: pages with any status flags, status clicks, and the
\* outcomes of the calls they make.
StatusUser == \E id \in Ids : HandleStatusToggle(id)

StatusServer ==
  \/ \E request \in loads : LoadDone(request, ServerPage(request))
  \/ \E k \in 1..MaxInFlight : CallOk(k) \/ \E reached \in BOOLEAN : CallFail(k, reached)
  \/ \E k \in 1..MaxInFlight :
       \/ ReloadDone(k, ServerPage(LoadRequest(selectedCollectionId, NoFilter)))
       \/ ReloadFail(k)

StatusNext == StatusUser \/ StatusServer

StatusSpec == Init /\ [][StatusNext]_vars

\* Status clicks whose calls all succeed: the page load, the clicks, and
\* the answers of the add and remove calls in any order.
ToggleServer ==
  \/ \E request \in loads : LoadDone(request, ServerPage(request))
  \/ \E k \in 1..MaxInFlight : CallOk(k)

ToggleNext == StatusUser \/ ToggleServer

ToggleSpec == Init /\ [][ToggleNext]_vars

\* ------------------------------------------------------------------ claims
PendingTimers == Cardinality({t \in 1..MaxTimers : timers[t] # NoTimer})
NoSockets == \A s \in 1..MaxSockets : sockets[s].st = "FREE"
Tracked == ~IsNull(currentOperation)

\* The channel has used up its reconnection budget: the counter is at the
\* cap, no socket is left and no reconnect is scheduled.
Exhausted ==
  /\ reconnectAttemptsRef = maxReconnectAttempts
  /\ NoSockets
  /\ PendingTimers = 0

ErrorNotifications == {"conflict_check_failed", "status_check_failed", "dispatch_failed"}

TerminalSuccess ==
  /\ terminal = "success"
  /\ notification = "op_success"
  /\ IsFreshPage

TerminalFailure ==
  /\ terminal = "failure"
  /\ notification \in ErrorNotifications

CompletedApplied == applied /\ Val(lastMessage).status = "completed"
FailedApplied == applied /\ Val(lastMessage).status = "failed"

C2_ProcessedNeverDecreases ==
  [][(Tracked /\ ~IsNull(currentOperation')) => processedCount' >= processedCount]_vars

\* C3: a lost connection schedules exactly one reconnect and adds one to the
\* attempt counter while the counter is below maxReconnectAttempts; the
\* reconnects made since the last successful open never exceed the cap; and
\* once the budget is used up while an operation is tracked no socket or
\* timeout is ever created again for as long as the channel's target stays
\* the same.
C3_ReconnectCap ==
  /\ [](attemptsSinceOpen <= maxReconnectAttempts)
  /\ [](reconnectAttemptsRef <= maxReconnectAttempts)
  /\ [][(\E s \in 1..MaxSockets : WsLost(s))
          => IF reconnectAttemptsRef < maxReconnectAttempts
             THEN /\ reconnectAttemptsRef' = reconnectAttemptsRef + 1
                  /\ PendingTimers' = PendingTimers + 1
             ELSE /\ reconnectAttemptsRef' = reconnectAttemptsRef
                  /\ PendingTimers' = PendingTimers]_vars
  /\ [][(Exhausted /\ Tracked /\ UrlOf(currentOperation') = UrlOf(currentOperation))
          => Exhausted']_vars

\* C4: while there is no operation id (the modal was dismissed, the dispatch
\* failed) no socket is open or connecting, no reconnect is pending and the
\* reconnect-attempt counter is zero.
C4_NoChannelWithoutOperation ==
  ~Tracked =>
    /\ \A s \in 1..MaxSockets : ~Live(s)
    /\ PendingTimers = 0
    /\ reconnectAttemptsRef = 0

\* C5: every frame received for the operation being tracked, whether it is
\* addressed to the predicted id or to the id the server returned, is
\* applied to the operation record.
C5_NoFrameLostByRekey ==
  (Tracked /\ ~IsNull(lastMessage) /\ Val(lastMessage).operation_id \in ServerIds(opClock))
    => applied

\* C6: when the reconnection budget runs out while an operation is tracked
\* and has not completed, the coordinator eventually reaches
\* Terminal(failure).
C6_ExhaustedLeadsToFailure ==
  (Exhausted /\ Tracked /\ flow = "idle" /\ status = "none" /\ completeTimers = 0)
    ~> TerminalFailure

\* C7: a failed frame for the tracked operation eventually brings the
\* coordinator to Terminal(failure) with an error notification.
C7_FailedLeadsToFailure == FailedApplied ~> TerminalFailure

\* C8: a step that handles a failure (conflict check, status check, bulk
\* dispatch, clear-statuses removal) leaves selectedIds and isAllSelected
\* as they were.
FailureStep ==
  \/ CheckConflictsFail
  \/ CheckStatusesFail
  \/ BulkCallFail
  \/ RemovalFailed

C8_FailureKeepsSelection ==
  [][FailureStep => UNCHANGED <<selectedIds, isAllSelected>>]_vars

\* C9: the resolution dialog is open only for a report with a conflict or a
\* duplicate, and while it is open no bulk call is in flight and the
\* coordinator tracks no operation; a bulk add is dispatched only after a
\* report without conflicts and duplicates or after the user chose move or
\* skip; only that choice takes the coordinator out of the dialog into a
\* dispatch; and no socket is created while the dialog stays open.
Dispatching == flow \in {"waitWs", "bulkCall"}

C9_AwaitingInv ==
  /\ conflictDialog.open =>
       /\ HasIssues(Val(conflictDialog.conflictInfo))
       /\ flow = "idle"
       /\ ~Tracked
  /\ (Dispatching /\ flowKind = "add") =>
       /\ ~IsNull(resolved)
       /\ HasIssues(Val(resolved)) => choice \in {"move", "skip"}
       /\ ~conflictDialog.open

C9_NoDispatchWithoutChoice ==
  /\ []C9_AwaitingInv
  /\ [][(conflictDialog.open /\ (flow' # "idle" \/ ~IsNull(currentOperation')))
          => \E action \in {"move", "skip"} : OnResolve(action)]_vars
  /\ [][(conflictDialog.open /\ conflictDialog'.open)
          => \A s \in 1..MaxSockets : sockets[s].st = "FREE" => sockets'[s].st = "FREE"]_vars

C11_SkipDispatch ==
  (Dispatching /\ flowKind = "add" /\ choice = "skip") =>
    /\ flowIds = Val(resolved).safe_to_add
    /\ SeqToSet(flowIds) \cap ConflictIds(Val(resolved)) = {}
    /\ SeqToSet(flowIds) \cap SeqToSet(Val(resolved).duplicates) = {}

C11_Witness ==
  /\ flow = "bulkCall" /\ flowKind = "add" /\ choice = "skip"
  /\ ConflictIds(Val(resolved)) # {}
  /\ flowIds # <<>>

\* C12: cancelling (or dismissing) the resolution dialog resolves to the
\* empty id list and only closes the dialog: the coordinator is idle with
\* the controls enabled, no operation record, socket or timeout is created,
\* no call is in flight, nothing is notified and the selection is as it was.
C12_CancelNoEffect ==
  /\ [](conflictDialog.open => IdsToAdd(Val(conflictDialog.conflictInfo), "cancel") = <<>>)
  /\ [][OnResolve("cancel") =>
          /\ ~conflictDialog'.open
          /\ flow' = "idle" /\ ~isProcessing' /\ IsNull(currentOperation')
          /\ UNCHANGED <<selVars, isProcessing, currentOperation, notification,
                         confirmDialog, clearStatusesDialog, flowVars, hookVars,
                         modalVars, opClock, terminal, tableVars>>]_vars

C12_Witness ==
  /\ choice = "cancel"
  /\ ~conflictDialog.open
  /\ selectedIds # {}
  /\ flow = "idle"

\* C13: when the conflict check fails the error is notified and the flow
\* ends there: the coordinator is idle with the controls enabled again, no
\* bulk call is in flight, no operation record, socket or timeout has been
\* created, the selection is kept, and a conflict check only ever starts
\* from the user's bulk-add action (the failed check is not retried).
C13_CheckFailure ==
  /\ [][CheckConflictsFail =>
          /\ notification' = "conflict_check_failed"
          /\ flow' = "idle" /\ ~isProcessing'
          /\ ~conflictDialog'.open
          /\ UNCHANGED <<selVars, currentOperation, hookVars, modalVars, opClock>>]_vars
  /\ [][(flow # "checkConflicts" /\ flow' = "checkConflicts") => HandleBulkAdd]_vars

C13_Witness ==
  /\ notification = "conflict_check_failed"
  /\ flow = "idle" /\ ~isProcessing
  /\ IsNull(currentOperation)
  /\ selectedIds # {}

\* C14: a toggle flips the membership of its id and of no other id, so a
\* sequence of toggles leaves the symmetric difference of the start set and
\* the ids toggled an odd number of times; toggling one id twice in a row
\* gives back the set the two calls started from.
C14_ToggleIsSymmetricDifference ==
  /\ [][\A id \in Ids : CtrlClick(id) =>
          selectedIds' = (selectedIds \ {id}) \cup ({id} \ selectedIds)]_vars
  /\ [](\A id \in Ids :
          /\ ToggleSet(ToggleSet(selectedIds, id), id) = selectedIds
          /\ \A other \in Ids : ToggleSet(ToggleSet(ToggleSet(selectedIds, id), other), id)
                                  = ToggleSet(selectedIds, other))

C14_Witness ==
  /\ lastClick = "ctrl"
  /\ lastSelectedId \notin selectedIds
  /\ selectedIds # {}

\* C15: whatever totalInCollection is, selectAll(ids) followed by a toggle
\* of an id x of ids leaves isAllSelected false and exactly ids \ {x}
\* selected.
C15_SelectAllThenToggle ==
  [][\A x \in Ids :
       (/\ isAllSelected
        /\ lastSelectAll = Some(selectedIds)
        /\ x \in selectedIds
        /\ CtrlClick(x))
       => (/\ ~isAllSelected'
           /\ selectedIds' = selectedIds \ {x})]_vars

\* C16: whenever isAllSelected is true the selection is exactly the id set
\* of the most recent selectAll, and every deselection of a single id
\* removes that id and leaves isAllSelected false.
C16_AllSelectedMeansLastSelectAll ==
  /\ [](isAllSelected => lastSelectAll = Some(selectedIds))
  /\ [][\A x \in Ids : (x \in selectedIds /\ CtrlClick(x)) =>
          (x \notin selectedIds' /\ ~isAllSelected')]_vars

\* C17: the number of selected ids never exceeds totalInCollection, the
\* count the server reported for the collection and filter last loaded.
C17_SelectionWithinTotal == Cardinality(selectedIds) <= totalInCollection

\* C18: the selection starts empty with isAllSelected false, and is empty
\* with isAllSelected false again after every change of the collection
\* shown, every change of the column filter and every completed bulk
\* operation.
C18_SelectionReset ==
  /\ (selectedIds = {} /\ ~isAllSelected)
  /\ [][(\/ selectedCollectionId' # selectedCollectionId
         \/ columnFilters' # columnFilters
         \/ handleOperationComplete)
        => (selectedIds' = {} /\ ~isAllSelected')]_vars

\* the part of C18 the code keeps: collection changes and completed
\* operations do reset the selection
C18_ResetOnCollectionAndCompletion ==
  /\ (selectedIds = {} /\ ~isAllSelected)
  /\ [][(\/ selectedCollectionId' # selectedCollectionId
         \/ handleOperationComplete)
        => (selectedIds' = {} /\ ~isAllSelected')]_vars

\* positions of an id in the rendered order, and the ids rendered between
\* two ids, ends included, whichever comes first
PositionOf(id) == {i \in 1..Len(response) : response[i].id = id}
Rendered(id) == PositionOf(id) # {}
IdsBetween(a, t) ==
  {response[i].id : i \in {j \in 1..Len(response) :
      \E p \in PositionOf(a), q \in PositionOf(t) :
         (p <= j /\ j <= q) \/ (q <= j /\ j <= p)}}

\* C19: a shift-click on row t with anchor a, both in the rendered order,
\* leaves selected what was selected plus every id rendered between a and t
\* (ends included, in either direction) and removes nothing; if the anchor
\* or the target is not rendered, selectedIds and isAllSelected stay as
\* they were.
C19_ShiftClickRange ==
  [][\A t \in Ids : ShiftClick(t) =>
       IF Rendered(lastSelectedId) /\ Rendered(t)
       THEN /\ selectedIds' = selectedIds \cup IdsBetween(lastSelectedId, t)
            /\ selectedIds \subseteq selectedIds'
       ELSE UNCHANGED <<selectedIds, isAllSelected>>]_vars

C19_Witness ==
  /\ lastClick = "shift"
  /\ IsNull(lastSelectAll)
  /\ Cardinality(selectedIds) >= 2
  /\ selectedIds = SeqToSet(currentPageIds)

\* the status shown for a company, the cycle, and the calls of a transition
DisplayedStatus(rows, id) ==
  LET row == CHOOSE r \in SeqToSet(rows) : r.id = id
  IN IF row.liked THEN "liked" ELSE IF row.ignored THEN "ignored" ELSE "none"

NextInCycle(st) ==
  CASE st = "none" -> "liked" [] st = "liked" -> "ignored" [] st = "ignored" -> "none"

ExpectedCalls(st, id) ==
  CASE st = "none" -> <<[op |-> "add", list |-> "liked", companyId |-> id]>>
    [] st = "liked" -> <<[op |-> "remove", list |-> "liked", companyId |-> id],
                         [op |-> "add", list |-> "ignored", companyId |-> id]>>
    [] st = "ignored" -> <<[op |-> "remove", list |-> "ignored", companyId |-> id]>>

ServerStatus(liked, ignored, id) ==
  IF id \in liked THEN "liked" ELSE IF id \in ignored THEN "ignored" ELSE "none"

\* the failure handling of the k-th handler ends in this step
FailureHandlingEnds(k) ==
  /\ k \in 1..Len(toggles)
  /\ toggles[k].at = "reload"
  /\ toggles' = RemoveAt(toggles, k)

\* C21: when the failure handling of a status transition ends, the company
\* shows the status the server holds for it, not the unconfirmed optimistic
\* one; in particular after a none -> liked toggle whose add failed without
\* reaching the server the company shows none.
C21_FailureReverts ==
  [][\A k \in 1..MaxInFlight : FailureHandlingEnds(k) =>
       LET id == toggles[k].companyId
       IN /\ DisplayedStatus(response', id) = ServerStatus(likedList', ignoredList', id)
          /\ (toggles[k].currentStatus = "none" /\ id \notin likedList')
               => DisplayedStatus(response', id) # "liked"]_vars

\* the part of C21 the code keeps: a re-fetch that succeeds shows the
\* server's status
C21_RefetchShowsServerStatus ==
  [][\A k \in 1..MaxInFlight :
       ReloadDone(k, ServerPage(LoadRequest(selectedCollectionId, NoFilter))) =>
         DisplayedStatus(response', toggles[k].companyId)
           = ServerStatus(likedList', ignoredList', toggles[k].companyId)]_vars

\* C22: while a bulk operation is being dispatched or tracked, the only
\* step that changes selectedIds or isAllSelected is the clear of the
\* coordinator's success handling.
C22_SingleWriter ==
  [][((Dispatching \/ Tracked)
       /\ (selectedIds' # selectedIds \/ isAllSelected' # isAllSelected))
     => handleOperationComplete]_vars

\* The id lists of the bulk calls that are in flight: the call of the bulk
\* add or bulk remove flow, the removals of the clear-statuses flow, and the
\* calls of the Delete shortcut.
IdListsInFlight ==
  (IF flow = "bulkCall" THEN {SeqToSet(flowIds)} ELSE {})
    \cup (IF flow = "clearing"
          THEN {SeqToSet(IF c = "liked" THEN clearStatusesDialog.likedIds
                         ELSE clearStatusesDialog.ignoredIds) : c \in RemovalsIssued}
          ELSE {})
    \cup {call.ids : call \in removeCalls}

C24_BadFrameIgnored ==
  [][\A s \in 1..MaxSockets :
       /\ WsBadFrame(s)
            => UNCHANGED <<sockets, wsRef, reconnectTimeoutRef, reconnectAttemptsRef,
                           timers, currentOperation, modalVars>>
       /\ \A p \in 0..MaxProcessed, st \in FrameStatuses :
            (/\ lastMessage = Some(RawFrame)
             /\ WsMessage(s, p, st)
             /\ MessageMatches(Some(Frame(sockets[s].url, p, st)), currentOperation))
            => /\ processedCount' = p
               /\ st = "completed" => status' = "completed"]_vars

\* the unparsable frame is the last message of an open channel that had
\* already reported progress
C24_Witness ==
  /\ lastMessage = Some(RawFrame)
  /\ processedCount = MaxProcessed
  /\ ~IsNull(currentOperation)
  /\ \E s \in 1..MaxSockets :
       sockets[s].st = "OPEN" /\ sockets[s].url = Val(currentOperation).id

\* C25: when a new bulk operation starts being tracked, the progress modal
\* shows processed = 0 and no status for it: nothing observed for an earlier
\* operation is carried over.
C25_FreshProgress ==
  [][opClock' = opClock + 1 => processedCount' = 0 /\ status' = "none"]_vars

\* C26: at most one progress socket is open or connecting; it is the socket
\* of the current operation id, and it is the one the hook's reference
\* names, so that a disconnect closes it.
C26_OneLiveSocket ==
  /\ Cardinality({s \in 1..MaxSockets : Live(s)}) <= 1
  /\ \A s \in 1..MaxSockets :
       Live(s) => /\ Tracked
                  /\ sockets[s].url = UrlOf(currentOperation)
                  /\ wsRef = s

\* C27: when no operation is tracked, no handler of a bulk flow is waiting
\* for a collaborator and no completion handling is pending, the processing
\* flag is false, so the controls of the bar are enabled.
C27_IdleMeansEnabled ==
  (IsNull(currentOperation) /\ flow = "idle" /\ completeTimers = 0) => ~isProcessing

\* C28: the answer of a select-all id fetch that was issued for a
\* collection other than the one now shown leaves selectedIds and
\* isAllSelected as they are.
C28_SelectAllStaysInCollection ==
  [][\A collectionId \in Collections :
       (IdsFetched(collectionId) /\ collectionId # selectedCollectionId)
         => (selectedIds' = selectedIds /\ isAllSelected' = isAllSelected)]_vars

\* C29: for one company whose status clicks overlap, when the last call in
\* flight returns and every call has succeeded, the status shown equals the
\* status on the server and the company is not on both status lists.
C29_TogglesConverge ==
  [][(toggles # <<>> /\ toggles' = <<>>)
       => LET id == toggles[1].companyId
          IN /\ DisplayedStatus(response', id) = ServerStatus(likedList', ignoredList', id)
             /\ ~(id \in likedList' /\ id \in ignoredList')]_vars

\* C30: the clear-statuses flow reports success only if every removal it
\* issued succeeded; when one of them fails an error is reported and no
\* success.
C30_ClearSuccessNeedsAllRemovals ==
  [][\A failed \in SUBSET {"liked", "ignored"} :
       (ClearStatusesSettled(failed) /\ failed # {})
         => (notification' # "statuses_cleared" /\ notification' \in ErrorNotifications)]_vars

====
